---- MODULE Spec2Model ----
(***************************************************************************)
(* cherrybot: the anti-raid / anti-nuke cog (security_commands.py).        *)
(*                                                                         *)
(* The cog keeps a set of enabled guilds (persisted as a JSON list), one   *)
(* bounded deque of join timestamps per guild and one bounded deque of     *)
(* deletion timestamps per (guild, user, action).  Event listeners are     *)
(* coroutines: every `await` on the platform is a point where another      *)
(* listener may run, so a listener is modelled as a task that moves from   *)
(* one await to the next.                                                  *)
(***************************************************************************)
EXTENDS Integers, Sequences, FiniteSets, TLC

(***************************************************************************)
(* Program constants.                                                      *)
(***************************************************************************)
JOIN_THRESHOLD == 6
JOIN_WINDOW == 10
CHANNEL_DEL_THRESHOLD == 3
ROLE_DEL_THRESHOLD == 3
DEL_WINDOW == 30
JOINS_MAXLEN == 50
ACTIONS_MAXLEN == 10
RAID_SLOWMODE == 30

(***************************************************************************)
(* Bounds of the model.                                                    *)
(***************************************************************************)
MaxTime == 11
MaxDelTime == 31
MaxJoins == 7
MaxDeletes == 4
MaxBurstJoins == 12
MaxBurstDeletes == 6
MaxStoreJoins == 2
MaxRaidJoins == 8
MaxWarns == 3
MaxCapRaids == 46
MaxPremiumUsers == 4
MaxKeyJoins == 7
MaxKeyDeletes == 5
MaxCapBans == 9

Guilds == {1, 2}
Users == {1, 2}
Actions == {"channel_delete", "role_delete"}
Keys == Guilds \X Users \X Actions
TaskIds == {1, 2}
NoUser == 0

\* the text channels of each guild, visited in this order by the lockdown
TextChannels(g) == IF g = 1 THEN <<1, 2>> ELSE <<3>>
ChannelIds == {1, 2, 3}

VARIABLES
    now,            \* the clock read by _now()
    enabled_guilds, \* Security.enabled_guilds
    enable_file,    \* the content of security_enabled.json
    joins,          \* Security.joins: guild -> deque of timestamps
    actions,        \* Security.actions: (guild, user, action) -> deque
    tasks,          \* the listeners suspended at an await
    channels,       \* platform: slowmode and @everyone send overwrite
    audit_last,     \* platform: executor of the newest audit entry
    raid_calls,     \* number of _activate_raid_mode calls per guild
    ban_calls,      \* number of guild.ban calls per key
    notify_calls,   \* number of _notify_owners calls per guild
    burst_raids,    \* lockdowns since the guild's joins were last under threshold
    burst_bans,     \* bans since the key's deletions were last under threshold
    last,           \* the decision taken by the listener that ran in this step
    boot_file,      \* the file content __init__ found
    last_op,        \* the last enable / disable command handled per guild
    burst_failed,   \* a ban of the key has failed since its deletions were
                    \* last under threshold
    warnings,       \* ModerationCommands.warnings
    warn_file,      \* the content of warnings.json
    warn_boot,      \* the file content load_warnings found
    warn_calls,     \* number of warn commands handled
    all_joins,      \* every join timestamp handled per guild, none dropped
    all_actions,    \* every deletion timestamp handled per key, none dropped
    premium_cache,  \* premium_utils.premium_cache
    premium_file,   \* the content of premium.json
    premium_ops     \* the last grant / revoke handled per user

vars == <<now, enabled_guilds, enable_file, joins, actions, tasks, channels,
          audit_last, raid_calls, ban_calls, notify_calls, burst_raids,
          burst_bans, last, boot_file, last_op, burst_failed, warnings,
          warn_file, warn_boot, warn_calls, all_joins, all_actions,
          premium_cache, premium_file, premium_ops>>

\* what the listeners own, what the platform owns, what only records history
store == <<enabled_guilds, enable_file>>
windows == <<joins, actions>>
platform == <<channels, audit_last>>
calls == <<raid_calls, ban_calls, notify_calls, burst_raids, burst_bans,
           burst_failed>>
ledger == <<warnings, warn_file, warn_boot, warn_calls>>
history == <<all_joins, all_actions>>
premium == <<premium_cache, premium_file, premium_ops>>

(***************************************************************************)
(* Helpers: defaultdict, deque(maxlen), the in-window count.               *)
(***************************************************************************)
\* defaultdict.__getitem__ as a read: a missing key holds the empty deque
Get(d, k) == IF k \in DOMAIN d THEN d[k] ELSE <<>>

\* the dict after d[k] = v (the key is created when missing)
Put(d, k, v) == [x \in (DOMAIN d) \cup {k} |-> IF x = k THEN v ELSE d[x]]

\* variant: a deque without maxlen
DequeAppendUnbounded(dq, x, n) == Append(dq, x)

\* variant: appendleft, the new entry in front of the older ones
DequeAppendLeft(dq, x, n) ==
    IF Len(dq) >= n THEN <<x>> \o SubSeq(dq, 1, Len(dq) - 1) ELSE <<x>> \o dq

\* variant: a capacity of two, below every threshold
DequeAppendShort(dq, x, n) ==
    IF Len(dq) >= 2 THEN Append(Tail(dq), x) ELSE Append(dq, x)

\* deque(maxlen=n).append(x): a full deque drops its oldest entry
DequeAppend(dq, x, n) == IF Len(dq) >= n THEN Append(Tail(dq), x) ELSE Append(dq, x)

\* variants: the boundary left out; no filter on age
RecentCountStrict(dq, t0, window) ==
    Len(SelectSeq(dq, LAMBDA t : t0 - t < window))

RecentCountAll(dq, t0, window) == Len(dq)

\* recent = [t for t in dq if now - t <= window]; len(recent)
RecentCount(dq, t0, window) ==
    Len(SelectSeq(dq, LAMBDA t : t0 - t <= window))

\* threshold = CHANNEL_DEL_THRESHOLD if action == "channel_delete" else ROLE_DEL_THRESHOLD
DelThreshold(a) ==
    IF a = "channel_delete" THEN CHANNEL_DEL_THRESHOLD ELSE ROLE_DEL_THRESHOLD

\* variant: deletions of all users of a guild aggregated under one key
ActionKeyPerGuild(g, u, a) == <<g, 1, a>>

\* variant: channel and role deletions of a user counted under one key
ActionKeyAnyAction(g, u, a) == <<g, u, "channel_delete">>

\* key = (guild.id, user.id, action)
ActionKey(g, u, a) == <<g, u, a>>

\* variants: off by one above; off by one below
TriggersAbove(count, threshold) == count > threshold

TriggersEarly(count, threshold) == count >= threshold - 1

\* if len(recent) >= threshold
Triggers(count, threshold) == count >= threshold

(***************************************************************************)
(* Persistence of the enabled set.                                         *)
(***************************************************************************)
FileMissing == [kind |-> "missing", list |-> <<>>]
FileCorrupt == [kind |-> "corrupt", list |-> <<>>]
FileScalar == [kind |-> "scalar", list |-> <<>>]
FileJson(s) == [kind |-> "json", list |-> s]

Range(s) == {s[i] : i \in DOMAIN s}

\* list(a_set): the elements once each, in the set's iteration order
Orderings(S) ==
    {s \in [1..Cardinality(S) -> S] : Range(s) = S}

\* variant: a file that cannot be read enables every guild
LoadEnabledFailClosed(f) == IF f.kind = "json" THEN Range(f.list) ELSE Guilds

\* _load_enabled: set(json.loads(text)), or set() when the file is missing,
\* unparsable or holds a value set() rejects
LoadEnabled(f) == IF f.kind = "json" THEN Range(f.list) ELSE {}

\* variant: the file is not rewritten
SavedFilesStale(S) == {enable_file}

\* _save_enabled: write_text(json.dumps(list(self.enabled_guilds)))
SavedFiles(S) == {FileJson(s) : s \in Orderings(S)}

\* variant: the enabled check dropped
NotEnabledNever(g) == FALSE

\* if member.guild.id not in self.enabled_guilds: return
NotEnabled(g) == g \notin enabled_guilds

\* variant: an empty lookup result treated as an entry
ResolvedOrEmpty(outcome) == outcome \in {"entry", "nouser", "empty"}

\* the audit lookup neither raised nor came back empty
Resolved(outcome) == outcome \in {"entry", "nouser"}

(***************************************************************************)
(* The warning ledger (moderation_clean.py): a JSON document that is meant *)
(* to map str(member.id) to a list of records.  A document is a map, or    *)
(* some other JSON value; a value of a map is a list of records, or some   *)
(* other JSON value.                                                       *)
(***************************************************************************)
Reasons == {"Spam", "flood"}
Mods == {1, 2}

\* reason.lower()
Lower(r) == IF r = "Spam" THEN "spam" ELSE r

\* str(member.id)
SubjectKey(m) == ToString(m)

DocMap(m) == [kind |-> "map", map |-> m]
DocOther == [kind |-> "other", map |-> <<>>]
ValList(items) == [kind |-> "list", items |-> items]
ValOther == [kind |-> "other", items |-> <<>>]
EmptyLedger == DocMap(<<>>)

WarnFileMissing == [kind |-> "missing", doc |-> EmptyLedger]
WarnFileCorrupt == [kind |-> "corrupt", doc |-> EmptyLedger]
WarnFileJson(doc) == [kind |-> "json", doc |-> doc]

\* a document that maps every key it holds to a list
WellFormed(doc) ==
    /\ doc.kind = "map"
    /\ \A k \in DOMAIN doc.map : doc.map[k].kind = "list"

\* variant: a document that is not a well-formed ledger loads as empty
LoadWarningsValidated(f) ==
    IF f.kind = "json" /\ WellFormed(f.doc) THEN f.doc ELSE EmptyLedger

\* load_warnings: json.loads(text) as it is, or {} when the file is missing
\* or json.loads raises JSONDecodeError
LoadWarnings(f) == IF f.kind = "json" THEN f.doc ELSE EmptyLedger

\* save_warnings: write_text(json.dumps(data))
SavedWarnings(doc) == WarnFileJson(doc)

\* variant: the new record put first
PrependEntry(items, e) == <<e>> \o items

\* list.append(entry)
AppendEntry(items, e) == Append(items, e)

\* self.warnings.setdefault(key, []).append(entry) raises AttributeError:
\* the document has no setdefault, or the value found has no append
WarnRaises(doc, key) ==
    \/ doc.kind # "map"
    \/ key \in DOMAIN doc.map /\ doc.map[key].kind # "list"

\* the list setdefault returns
Entries(doc, key) ==
    IF key \in DOMAIN doc.map THEN doc.map[key].items ELSE <<>>

(***************************************************************************)
(* Premium: premium_utils keeps a dict of two id lists in premium.json.    *)
(***************************************************************************)
PremiumUsers == 1..MaxPremiumUsers

\* _default_data()
DefaultData == [users |-> <<>>, guilds |-> <<>>]

PremiumFileMissing == [kind |-> "missing", data |-> DefaultData]
PremiumFileCorrupt == [kind |-> "corrupt", data |-> DefaultData]
PremiumFileJson(data) == [kind |-> "json", data |-> data]

\* load_premium(): the parsed document, or the default when the file is
\* missing or does not parse
LoadPremium(f) == IF f.kind = "json" THEN f.data ELSE DefaultData

\* load_premium() renames a file that does not parse to premium.bak
AfterLoadPremium(f) == IF f.kind = "corrupt" THEN PremiumFileMissing ELSE f

\* save_premium(data): json.dumps keeps the lists in their order
SavePremium(data) == PremiumFileJson(data)

\* user_id in premium_cache["users"]
is_premium_user(user_id) ==
    \E j \in 1..Len(premium_cache.users) : premium_cache.users[j] = user_id

\* list.remove(x): the first occurrence of x is taken out
ListRemove(seq, x) ==
    LET first == CHOOSE j \in 1..Len(seq) :
                     /\ seq[j] = x
                     /\ \A h \in 1..(j - 1) : seq[h] # x
    IN SubSeq(seq, 1, first - 1) \o SubSeq(seq, first + 1, Len(seq))

(***************************************************************************)
(* Tasks: a listener suspended at an await.                                *)
(***************************************************************************)
\* rank: the arrival position of a listener among the audit lookups that
\* are pending (1 = the oldest); 0 for every other listener
Idle == [pc |-> "idle", guild |-> 0, action |-> "none", actor |-> NoUser,
         user |-> NoUser, idx |-> 0, rank |-> 0]

NoEvent == [kind |-> "none", guild |-> 0, user |-> NoUser, action |-> "none",
            count |-> 0, calls |-> 0]

FreeSlots == {i \in TaskIds : tasks[i].pc = "idle"}
Pending == {i \in TaskIds : tasks[i].pc = "lookup"}

\* the listeners after the lookup of arrival position r has returned
Rerank(ts, r) ==
    [j \in TaskIds |->
        IF ts[j].pc = "lookup" /\ ts[j].rank > r
        THEN [ts[j] EXCEPT !.rank = @ - 1] ELSE ts[j]]
FreeSlot == CHOOSE i \in FreeSlots : \A j \in FreeSlots : i <= j

Sum(f, S) ==
    LET RECURSIVE Acc(_)
        Acc(T) == IF T = {} THEN 0
                  ELSE LET x == CHOOSE y \in T : TRUE IN f[x] + Acc(T \ {x})
    IN Acc(S)

TotalJoins == Sum([g \in DOMAIN joins |-> Len(joins[g])], DOMAIN joins)
TotalDeletes ==
    Sum([k \in DOMAIN actions |-> Len(actions[k])], DOMAIN actions)
    + Cardinality({i \in TaskIds : tasks[i].pc = "lookup"})

(***************************************************************************)
(* Construction: Security.__init__ after the process has started.          *)
(***************************************************************************)
InitialFiles ==
    {FileMissing, FileCorrupt, FileScalar, FileJson(<<>>), FileJson(<<1>>),
     FileJson(<<2, 1>>), FileJson(<<2, 2>>)}

SecurityInit(files) ==
    /\ now = 0
    /\ enable_file \in files
    /\ enabled_guilds = LoadEnabled(enable_file)
    /\ boot_file = enable_file
    /\ joins = <<>>
    /\ actions = <<>>
    /\ all_joins = <<>>
    /\ all_actions = <<>>
    /\ tasks = [i \in TaskIds |-> Idle]
    /\ channels = [c \in ChannelIds |->
                      [slowmode |-> 0,
                       send |-> IF c = 2 THEN "deny" ELSE "unset"]]
    /\ audit_last = [g \in Guilds |-> [a \in Actions |-> NoUser]]
    /\ raid_calls = [g \in Guilds |-> 0]
    /\ ban_calls = [k \in Keys |-> 0]
    /\ notify_calls = [g \in Guilds |-> 0]
    /\ burst_raids = [g \in Guilds |-> 0]
    /\ burst_bans = [k \in Keys |-> 0]
    /\ burst_failed = [k \in Keys |-> FALSE]
    /\ last = NoEvent
    /\ last_op = [g \in Guilds |-> "none"]

\* ModerationCommands.__init__: self.warnings = load_warnings()
LedgerInit(files) ==
    /\ warn_file \in files
    /\ warnings = LoadWarnings(warn_file)
    /\ warn_boot = warn_file
    /\ warn_calls = 0

\* premium_utils imported: premium_cache = load_premium()
PremiumInit(files) ==
    /\ \E f \in files : /\ premium_cache = LoadPremium(f)
                         /\ premium_file = AfterLoadPremium(f)
    /\ premium_ops = [u \in PremiumUsers |-> "none"]

\* the cogs constructed; no warnings.json and no premium.json unless a
\* specification says so
InitWith(files) ==
    /\ SecurityInit(files)
    /\ LedgerInit({WarnFileMissing})
    /\ PremiumInit({PremiumFileMissing})

(***************************************************************************)
(* The clock.                                                              *)
(***************************************************************************)
Tick(d, maxt) ==
    /\ now + d <= maxt
    /\ now' = now + d
    /\ last' = NoEvent
    /\ burst_raids' = [g \in Guilds |->
                          IF RecentCount(Get(joins, g), now', JOIN_WINDOW)
                               >= JOIN_THRESHOLD
                          THEN burst_raids[g] ELSE 0]
    /\ burst_bans' = [k \in Keys |->
                         IF RecentCount(Get(actions, k), now', DEL_WINDOW)
                              >= DelThreshold(k[3])
                         THEN burst_bans[k] ELSE 0]
    /\ burst_failed' = [k \in Keys |-> burst_failed[k] /\ burst_bans'[k] > 0]
    /\ UNCHANGED <<store, windows, history, tasks, platform, raid_calls,
                   ban_calls, notify_calls, boot_file, ledger, premium,
                   last_op>>

(***************************************************************************)
(* Owner commands: securitysetup enable / disable.                         *)
(***************************************************************************)
\* variant: enable on an enabled guild removes it
SecurityEnableToggle(g) ==
    /\ enabled_guilds' = IF g \in enabled_guilds THEN enabled_guilds \ {g}
                         ELSE enabled_guilds \cup {g}
    /\ enable_file' \in SavedFiles(enabled_guilds')
    /\ last_op' = [last_op EXCEPT ![g] = "enable"]
    /\ last' = NoEvent
    /\ UNCHANGED <<now, windows, history, tasks, platform, calls, boot_file,
                   ledger, premium>>

\* self.enabled_guilds.add(ctx.guild.id); self._save_enabled()
SecurityEnable(g) ==
    /\ enabled_guilds' = enabled_guilds \cup {g}
    /\ enable_file' \in SavedFiles(enabled_guilds')
    /\ last_op' = [last_op EXCEPT ![g] = "enable"]
    /\ last' = NoEvent
    /\ UNCHANGED <<now, windows, history, tasks, platform, calls, boot_file,
                   ledger, premium>>

\* variant: disable also forgets the guild's join window
SecurityDisableClears(g) ==
    /\ enabled_guilds' = enabled_guilds \ {g}
    /\ enable_file' \in SavedFiles(enabled_guilds')
    /\ joins' = [x \in (DOMAIN joins) \ {g} |-> joins[x]]
    /\ last_op' = [last_op EXCEPT ![g] = "disable"]
    /\ last' = NoEvent
    /\ UNCHANGED <<now, actions, history, tasks, platform, calls, boot_file,
                   ledger, premium>>

\* self.enabled_guilds.discard(ctx.guild.id); self._save_enabled()
SecurityDisable(g) ==
    /\ enabled_guilds' = enabled_guilds \ {g}
    /\ enable_file' \in SavedFiles(enabled_guilds')
    /\ last_op' = [last_op EXCEPT ![g] = "disable"]
    /\ last' = NoEvent
    /\ UNCHANGED <<now, windows, history, tasks, platform, calls, boot_file,
                   ledger, premium>>

(***************************************************************************)
(* Raid join detection: on_member_join and _activate_raid_mode.            *)
(***************************************************************************)
\* the task after the lockdown loop has finished with channel number idx:
\* the next channel's edit, or the owner notification after the last one
AfterChannel(t) ==
    IF t.idx < Len(TextChannels(t.guild))
    THEN [t EXCEPT !.pc = "raid_edit", !.idx = t.idx + 1]
    ELSE [Idle EXCEPT !.pc = "notify", !.guild = t.guild]

\* _activate_raid_mode entered: suspended at the first channel.edit
RaidTask(g) ==
    AfterChannel([Idle EXCEPT !.guild = g, !.action = "join"])

\* the loop leaves for _notify_owners exactly when the new task is at notify
Notified(t, g) == IF t.pc = "notify" THEN 1 ELSE 0

OnMemberJoin(g, cap) ==
    /\ TotalJoins < cap
    /\ IF NotEnabled(g)
       THEN /\ last' = [NoEvent EXCEPT !.kind = "ignored", !.guild = g,
                                        !.action = "join"]
            /\ UNCHANGED <<now, store, windows, history, tasks, platform, calls,
                           boot_file, ledger, premium, last_op>>
       ELSE LET dq == DequeAppend(Get(joins, g), now, JOINS_MAXLEN)
                count == RecentCount(dq, now, JOIN_WINDOW)
                hit == Triggers(count, JOIN_THRESHOLD)
            IN /\ hit => FreeSlots # {}
               /\ joins' = Put(joins, g, dq)
               /\ all_joins' = Put(all_joins, g,
                                   Append(Get(all_joins, g), now))
               /\ raid_calls' = [raid_calls EXCEPT
                                    ![g] = @ + (IF hit THEN 1 ELSE 0)]
               /\ burst_raids' = [burst_raids EXCEPT
                                     ![g] = IF hit THEN @ + 1 ELSE 0]
               /\ tasks' = IF hit
                           THEN [tasks EXCEPT ![FreeSlot] = RaidTask(g)]
                           ELSE tasks
               /\ notify_calls' = [notify_calls EXCEPT
                                      ![g] = @ + (IF hit
                                                  THEN Notified(RaidTask(g), g)
                                                  ELSE 0)]
               /\ last' = [kind |-> "join", guild |-> g, user |-> NoUser,
                           action |-> "join", count |-> count,
                           calls |-> IF hit THEN 1 ELSE 0]
               /\ UNCHANGED <<now, store, actions, all_actions, platform,
                              ban_calls, burst_bans, burst_failed, boot_file,
                              ledger, premium, last_op>>

\* variant: one try around the whole loop, so that a failing edit ends it
RaidEditAbort(i, ok) ==
    LET t == tasks[i]
        c == TextChannels(t.guild)[t.idx]
        denied == channels[c].send = "deny"
        t2 == IF ~ok THEN [Idle EXCEPT !.pc = "notify", !.guild = t.guild]
              ELSE IF ~denied THEN [t EXCEPT !.pc = "raid_perm"]
              ELSE AfterChannel(t)
    IN /\ t.pc = "raid_edit"
       /\ channels' = IF ok
                      THEN [channels EXCEPT ![c].slowmode = RAID_SLOWMODE]
                      ELSE channels
       /\ tasks' = [tasks EXCEPT ![i] = t2]
       /\ notify_calls' = [notify_calls EXCEPT
                              ![t.guild] = @ + Notified(t2, t.guild)]
       /\ last' = NoEvent
       /\ UNCHANGED <<now, store, windows, history, audit_last, raid_calls,
                      ban_calls, burst_raids, burst_bans, burst_failed,
                      boot_file, ledger, premium, last_op>>

\* variant: the overwrite is written without looking at the present one
RaidEditNoCheck(i, ok) ==
    LET t == tasks[i]
        c == TextChannels(t.guild)[t.idx]
        t2 == IF ok THEN [t EXCEPT !.pc = "raid_perm"] ELSE AfterChannel(t)
    IN /\ t.pc = "raid_edit"
       /\ channels' = IF ok
                      THEN [channels EXCEPT ![c].slowmode = RAID_SLOWMODE]
                      ELSE channels
       /\ tasks' = [tasks EXCEPT ![i] = t2]
       /\ notify_calls' = [notify_calls EXCEPT
                              ![t.guild] = @ + Notified(t2, t.guild)]
       /\ last' = NoEvent
       /\ UNCHANGED <<now, store, windows, history, audit_last, raid_calls,
                      ban_calls, burst_raids, burst_bans, burst_failed,
                      boot_file, ledger, premium, last_op>>

\* await channel.edit(slowmode_delay=30) returns or raises
RaidEdit(i, ok) ==
    LET t == tasks[i]
        c == TextChannels(t.guild)[t.idx]
        denied == channels[c].send = "deny"
        t2 == IF ok /\ ~denied THEN [t EXCEPT !.pc = "raid_perm"]
              ELSE AfterChannel(t)
    IN /\ t.pc = "raid_edit"
       /\ channels' = IF ok
                      THEN [channels EXCEPT ![c].slowmode = RAID_SLOWMODE]
                      ELSE channels
       /\ tasks' = [tasks EXCEPT ![i] = t2]
       /\ notify_calls' = [notify_calls EXCEPT
                              ![t.guild] = @ + Notified(t2, t.guild)]
       /\ last' = NoEvent
       /\ UNCHANGED <<now, store, windows, history, audit_last, raid_calls,
                      ban_calls, burst_raids, burst_bans, burst_failed,
                      boot_file, ledger, premium, last_op>>

\* await channel.set_permissions(default_role, overwrite) returns or raises
RaidPerm(i, ok) ==
    LET t == tasks[i]
        c == TextChannels(t.guild)[t.idx]
        t2 == AfterChannel(t)
    IN /\ t.pc = "raid_perm"
       /\ channels' = IF ok THEN [channels EXCEPT ![c].send = "deny"]
                      ELSE channels
       /\ tasks' = [tasks EXCEPT ![i] = t2]
       /\ notify_calls' = [notify_calls EXCEPT
                              ![t.guild] = @ + Notified(t2, t.guild)]
       /\ last' = NoEvent
       /\ UNCHANGED <<now, store, windows, history, audit_last, raid_calls,
                      ban_calls, burst_raids, burst_bans, burst_failed,
                      boot_file, ledger, premium, last_op>>

\* _notify_owners: await owner.send(message) returns or raises
NotifyDone(i, ok) ==
    /\ tasks[i].pc = "notify"
    /\ tasks' = [tasks EXCEPT ![i] = Idle]
    /\ last' = NoEvent
    /\ UNCHANGED <<now, store, windows, history, platform, calls, boot_file,
                   ledger, premium, last_op>>

(***************************************************************************)
(* Destructive actions: on_guild_channel_delete, on_guild_role_delete and  *)
(* _handle_destructive_action.                                             *)
(***************************************************************************)
\* user u deletes a channel or a role of guild g; the listener runs up to
\* its audit-log request
OnGuildDelete(g, a, u, cap) ==
    /\ TotalDeletes < cap
    /\ audit_last' = [audit_last EXCEPT ![g][a] = u]
    /\ IF NotEnabled(g)
       THEN /\ last' = [NoEvent EXCEPT !.kind = "ignored", !.guild = g,
                                        !.action = a]
            /\ UNCHANGED tasks
       ELSE /\ FreeSlots # {}
            /\ last' = NoEvent
            /\ tasks' = [tasks EXCEPT ![FreeSlot] =
                            [Idle EXCEPT !.pc = "lookup", !.guild = g,
                                         !.action = a, !.actor = u,
                                         !.rank = Cardinality(Pending) + 1]]
    /\ UNCHANGED <<now, store, windows, history, channels, calls, boot_file,
                   ledger, premium, last_op>>

\* the lookup raises (or times out), returns no entry, returns an entry
\* whose user is None, or returns the newest entry
AuditOutcomes == {"raise", "empty", "nouser", "entry"}

\* await guild.audit_logs(limit=1, action=...).flatten() returns or raises
AuditReturn(i, outcome) ==
    LET t == tasks[i]
        user == audit_last[t.guild][t.action]
        key == ActionKey(t.guild, user, t.action)
        dq == DequeAppend(Get(actions, key), now, ACTIONS_MAXLEN)
        count == RecentCount(dq, now, DEL_WINDOW)
        hit == Triggers(count, DelThreshold(t.action))
    IN /\ t.pc = "lookup"
       /\ IF ~Resolved(outcome) \/ outcome = "nouser"
          THEN /\ tasks' = Rerank([tasks EXCEPT ![i] = Idle], t.rank)
               /\ last' = [NoEvent EXCEPT
                             !.kind = IF Resolved(outcome) THEN "crashed"
                                      ELSE "dropped",
                             !.guild = t.guild, !.action = t.action]
               /\ UNCHANGED <<actions, all_actions, ban_calls, burst_bans,
                              burst_failed>>
          ELSE /\ actions' = Put(actions, key, dq)
               /\ all_actions' = Put(all_actions, key,
                                     Append(Get(all_actions, key), now))
               /\ ban_calls' = [ban_calls EXCEPT
                                   ![key] = @ + (IF hit THEN 1 ELSE 0)]
               /\ burst_bans' = [burst_bans EXCEPT
                                    ![key] = IF hit THEN @ + 1 ELSE 0]
               /\ burst_failed' = [burst_failed EXCEPT ![key] = @ /\ hit]
               /\ tasks' = Rerank([tasks EXCEPT ![i] =
                                      IF hit
                                      THEN [t EXCEPT !.pc = "ban",
                                                     !.user = user,
                                                     !.actor = NoUser,
                                                     !.rank = 0]
                                      ELSE Idle], t.rank)
               /\ last' = [kind |-> "delete", guild |-> t.guild,
                           user |-> user, action |-> t.action,
                           count |-> count, calls |-> IF hit THEN 1 ELSE 0]
       /\ UNCHANGED <<now, store, joins, all_joins, platform, raid_calls,
                      notify_calls, burst_raids, boot_file, ledger, premium,
                      last_op>>

\* variant: a successful ban is not reported to the owners
BanDoneNoNotify(i, ok) ==
    LET t == tasks[i]
    IN /\ t.pc = "ban"
       /\ tasks' = [tasks EXCEPT ![i] = Idle]
       /\ burst_failed' =
              [burst_failed EXCEPT
                  ![ActionKey(t.guild, t.user, t.action)] =
                      @ \/ (~ok /\ burst_bans[ActionKey(t.guild, t.user,
                                                        t.action)] > 0)]
       /\ last' = NoEvent
       /\ UNCHANGED <<now, store, windows, history, platform, raid_calls,
                      ban_calls, notify_calls, burst_raids, burst_bans,
                      boot_file, ledger, premium, last_op>>

\* variant: a ban that raises switches the guild's protection off
BanDoneGivesUp(i, ok) ==
    LET t == tasks[i]
    IN /\ t.pc = "ban"
       /\ tasks' = [tasks EXCEPT ![i] =
                       IF ok THEN [Idle EXCEPT !.pc = "notify",
                                              !.guild = t.guild]
                       ELSE Idle]
       /\ notify_calls' = [notify_calls EXCEPT
                              ![t.guild] = @ + (IF ok THEN 1 ELSE 0)]
       /\ burst_failed' =
              [burst_failed EXCEPT
                  ![ActionKey(t.guild, t.user, t.action)] =
                      @ \/ (~ok /\ burst_bans[ActionKey(t.guild, t.user,
                                                        t.action)] > 0)]
       /\ enabled_guilds' = IF ok THEN enabled_guilds
                            ELSE enabled_guilds \ {t.guild}
       /\ enable_file' = IF ok THEN enable_file
                         ELSE FileJson(CHOOSE q \in Orderings(enabled_guilds')
                                           : TRUE)
       /\ last' = NoEvent
       /\ UNCHANGED <<now, windows, history, platform, raid_calls, ban_calls,
                      burst_raids, burst_bans, boot_file, ledger, premium,
                      last_op>>

\* variant: a ban that raises takes the deletion back out of the window
BanDoneRollback(i, ok) ==
    LET t == tasks[i]
        key == ActionKey(t.guild, t.user, t.action)
        dq == Get(actions, key)
    IN /\ t.pc = "ban"
       /\ tasks' = [tasks EXCEPT ![i] =
                       IF ok THEN [Idle EXCEPT !.pc = "notify",
                                              !.guild = t.guild]
                       ELSE Idle]
       /\ notify_calls' = [notify_calls EXCEPT
                              ![t.guild] = @ + (IF ok THEN 1 ELSE 0)]
       /\ burst_failed' =
              [burst_failed EXCEPT
                  ![key] = @ \/ (~ok /\ burst_bans[key] > 0)]
       /\ actions' = IF ok \/ dq = <<>> THEN actions
                     ELSE Put(actions, key, SubSeq(dq, 1, Len(dq) - 1))
       /\ last' = NoEvent
       /\ UNCHANGED <<now, store, joins, history, platform, raid_calls,
                      ban_calls, burst_raids, burst_bans, boot_file, ledger,
                      premium, last_op>>

\* await guild.ban(user, reason=...) returns or raises
BanDone(i, ok) ==
    LET t == tasks[i]
    IN /\ t.pc = "ban"
       /\ tasks' = [tasks EXCEPT ![i] =
                       IF ok THEN [Idle EXCEPT !.pc = "notify",
                                              !.guild = t.guild]
                       ELSE Idle]
       /\ notify_calls' = [notify_calls EXCEPT
                              ![t.guild] = @ + (IF ok THEN 1 ELSE 0)]
       /\ burst_failed' =
              [burst_failed EXCEPT
                  ![ActionKey(t.guild, t.user, t.action)] =
                      @ \/ (~ok /\ burst_bans[ActionKey(t.guild, t.user,
                                                        t.action)] > 0)]
       /\ last' = NoEvent
       /\ UNCHANGED <<now, store, windows, history, platform, raid_calls,
                      ban_calls, burst_raids, burst_bans, boot_file, ledger,
                      premium, last_op>>

(***************************************************************************)
(* Moderation: the warn command, up to its first await.                    *)
(***************************************************************************)
Warn(m, r, mod, cap) ==
    LET entry == [reason |-> Lower(r), mod |-> mod, time |-> now]
        key == SubjectKey(m)
    IN /\ warn_calls < cap
       /\ warn_calls' = warn_calls + 1
       /\ IF WarnRaises(warnings, key)
          THEN /\ last' = [NoEvent EXCEPT !.kind = "warn_raised", !.user = m]
               /\ UNCHANGED <<warnings, warn_file>>
          ELSE /\ warnings' =
                     DocMap(Put(warnings.map, key,
                                ValList(AppendEntry(Entries(warnings, key),
                                                    entry))))
               /\ warn_file' = SavedWarnings(warnings')
               /\ last' = [NoEvent EXCEPT !.kind = "warn", !.user = m]
       /\ UNCHANGED <<now, store, windows, history, tasks, platform, calls,
                      boot_file, warn_boot, premium, last_op>>

(***************************************************************************)
(* Premium: grant_premium_user up to its first await, revoke_premium_user. *)
(***************************************************************************)
\* variant: the id is appended without the membership test
GrantAlways(user_id) ==
    /\ premium_cache' = [premium_cache EXCEPT !.users = Append(@, user_id)]
    /\ premium_file' = SavePremium(premium_cache')
    /\ premium_ops' = [premium_ops EXCEPT ![user_id] = "grant"]
    /\ UNCHANGED <<now, store, windows, history, tasks, platform, calls,
                   boot_file, ledger, last, last_op>>

grant_premium_user(user_id) ==
    /\ IF ~is_premium_user(user_id)
       THEN /\ premium_cache' =
                   [premium_cache EXCEPT !.users = Append(@, user_id)]
            /\ premium_file' = SavePremium(premium_cache')
       ELSE UNCHANGED <<premium_cache, premium_file>>
    /\ premium_ops' = [premium_ops EXCEPT ![user_id] = "grant"]
    /\ UNCHANGED <<now, store, windows, history, tasks, platform, calls,
                   boot_file, ledger, last, last_op>>

revoke_premium_user(user_id) ==
    /\ IF is_premium_user(user_id)
       THEN /\ premium_cache' =
                   [premium_cache EXCEPT !.users = ListRemove(@, user_id)]
            /\ premium_file' = SavePremium(premium_cache')
       ELSE UNCHANGED <<premium_cache, premium_file>>
    /\ premium_ops' = [premium_ops EXCEPT ![user_id] = "revoke"]
    /\ UNCHANGED <<now, store, windows, history, tasks, platform, calls,
                   boot_file, ledger, last, last_op>>

(***************************************************************************)
(* A restart of the process: what is in memory is lost, the modules are    *)
(* imported and the cogs constructed again from the files.                 *)
(***************************************************************************)
\* variant: the restarted process does not read enabled_guilds.json
RestartEmpty ==
    /\ enabled_guilds' = {}
    /\ boot_file' = enable_file
    /\ joins' = <<>>
    /\ actions' = <<>>
    /\ all_joins' = <<>>
    /\ all_actions' = <<>>
    /\ tasks' = [i \in TaskIds |-> Idle]
    /\ burst_raids' = [g \in Guilds |-> 0]
    /\ burst_bans' = [k \in Keys |-> 0]
    /\ burst_failed' = [k \in Keys |-> FALSE]
    /\ warnings' = LoadWarnings(warn_file)
    /\ warn_boot' = warn_file
    /\ premium_cache' = LoadPremium(premium_file)
    /\ premium_file' = AfterLoadPremium(premium_file)
    /\ last' = [NoEvent EXCEPT !.kind = "restart"]
    /\ last_op' = [g \in Guilds |-> "none"]
    /\ UNCHANGED <<now, enable_file, platform, raid_calls, ban_calls,
                   notify_calls, warn_file, warn_calls, premium_ops>>

Restart ==
    /\ enabled_guilds' = LoadEnabled(enable_file)
    /\ boot_file' = enable_file
    /\ joins' = <<>>
    /\ actions' = <<>>
    /\ all_joins' = <<>>
    /\ all_actions' = <<>>
    /\ tasks' = [i \in TaskIds |-> Idle]
    /\ burst_raids' = [g \in Guilds |-> 0]
    /\ burst_bans' = [k \in Keys |-> 0]
    /\ burst_failed' = [k \in Keys |-> FALSE]
    /\ warnings' = LoadWarnings(warn_file)
    /\ warn_boot' = warn_file
    /\ premium_cache' = LoadPremium(premium_file)
    /\ premium_file' = AfterLoadPremium(premium_file)
    /\ last' = [NoEvent EXCEPT !.kind = "restart"]
    /\ last_op' = [g \in Guilds |-> "none"]
    /\ UNCHANGED <<now, enable_file, platform, raid_calls, ban_calls,
                   notify_calls, warn_file, warn_calls, premium_ops>>

(***************************************************************************)
(* Specifications.                                                         *)
(*                                                                         *)
(* The clock starts at the first recorded event and then moves by one      *)
(* window length (the inclusive boundary) or one more (just outside).      *)
(* Spec sends a behaviour either joins or deletions: the two detectors     *)
(* share no window.  Guild 2 stays disabled; guild 1 is toggled by the     *)
(* owner commands.                                                         *)
(***************************************************************************)
TickSteps == {JOIN_WINDOW, JOIN_WINDOW + 1}
DelTickSteps == {DEL_WINDOW, DEL_WINDOW + 1}
Toggled == {1}
NukedGuilds == {1}

\* no deletion has happened yet / no join has been recorded yet
NoDeletionYet ==
    /\ TotalDeletes = 0
    /\ \A g \in Guilds, a \in Actions : audit_last[g][a] = NoUser
NoJoinYet == TotalJoins = 0

Next ==
    \/ \E d \in TickSteps :
          NoDeletionYet /\ TotalJoins > 0 /\ Tick(d, MaxTime)
    \/ \E g \in Guilds : NoDeletionYet /\ OnMemberJoin(g, MaxJoins)
    \/ \E i \in TaskIds, ok \in BOOLEAN : RaidEdit(i, ok)
    \/ \E i \in TaskIds, ok \in BOOLEAN : RaidPerm(i, ok)
    \/ \E d \in DelTickSteps :
          NoJoinYet /\ TotalDeletes > 0 /\ Tick(d, MaxDelTime)
    \/ \E g \in NukedGuilds, a \in Actions, u \in Users :
          NoJoinYet /\ OnGuildDelete(g, a, u, MaxDeletes)
    \/ \E i \in TaskIds, o \in AuditOutcomes : AuditReturn(i, o)
    \/ \E i \in TaskIds, ok \in BOOLEAN : BanDone(i, ok)
    \/ \E i \in TaskIds, ok \in BOOLEAN : NotifyDone(i, ok)
    \/ \E g \in Toggled : SecurityEnable(g)
    \/ \E g \in Toggled : SecurityDisable(g)

Spec == InitWith({FileJson(<<1>>)}) /\ [][Next]_vars

\* Longer bursts, one listener at a time: an event arrives only when no
\* listener is suspended
Quiescent == FreeSlots = TaskIds

BurstNext ==
    \/ \E d \in TickSteps :
          NoDeletionYet /\ TotalJoins > 0 /\ Tick(d, MaxTime)
    \/ \E g \in Guilds :
          Quiescent /\ NoDeletionYet /\ OnMemberJoin(g, MaxBurstJoins)
    \/ \E i \in TaskIds, ok \in BOOLEAN : RaidEdit(i, ok)
    \/ \E i \in TaskIds, ok \in BOOLEAN : RaidPerm(i, ok)
    \/ \E d \in DelTickSteps :
          NoJoinYet /\ TotalDeletes > 0 /\ Tick(d, MaxDelTime)
    \/ \E g \in NukedGuilds, a \in Actions, u \in Users :
          Quiescent /\ NoJoinYet /\ OnGuildDelete(g, a, u, MaxBurstDeletes)
    \/ \E i \in TaskIds, o \in AuditOutcomes : AuditReturn(i, o)
    \/ \E i \in TaskIds, ok \in BOOLEAN : BanDone(i, ok)
    \/ \E i \in TaskIds, ok \in BOOLEAN : NotifyDone(i, ok)
    \/ \E g \in Toggled : Quiescent /\ SecurityEnable(g)
    \/ \E g \in Toggled : Quiescent /\ SecurityDisable(g)

BurstSpec == InitWith({FileJson(<<1>>)}) /\ [][BurstNext]_vars

\* The enablement store from every kind of persisted file, both guilds
\* toggled, with a few joins to show which guilds detect
StoreNext ==
    \/ \E g \in Guilds : SecurityEnable(g)
    \/ \E g \in Guilds : SecurityDisable(g)
    \/ \E g \in Guilds : OnMemberJoin(g, MaxStoreJoins)

StoreSpec == InitWith(InitialFiles) /\ [][StoreNext]_vars

\* Lockdowns in which every platform call succeeds, both guilds enabled,
\* listeners interleaving
RaidNext ==
    \/ \E g \in Guilds : OnMemberJoin(g, MaxRaidJoins)
    \/ \E i \in TaskIds : RaidEdit(i, TRUE)
    \/ \E i \in TaskIds : RaidPerm(i, TRUE)
    \/ \E i \in TaskIds, ok \in BOOLEAN : NotifyDone(i, ok)

RaidSpec == InitWith({FileJson(<<2, 1>>)}) /\ [][RaidNext]_vars

\* The warn command from every kind of warnings.json
WarnedOnce == ValList(<<[reason |-> "spam", mod |-> 1, time |-> 0]>>)

WarnInitialFiles ==
    {WarnFileMissing, WarnFileCorrupt, WarnFileJson(EmptyLedger),
     WarnFileJson(DocMap([k \in {SubjectKey(1)} |-> WarnedOnce])),
     WarnFileJson(DocOther),
     WarnFileJson(DocMap([k \in {SubjectKey(1)} |-> ValOther]))}

WarnNext ==
    \/ \E m \in Users, r \in Reasons, mod \in Mods :
          Warn(m, r, mod, MaxWarns)
    \/ \E d \in TickSteps : warn_calls > 0 /\ Tick(d, MaxTime)

WarnSpec ==
    /\ SecurityInit({FileJson(<<1>>)})
    /\ LedgerInit(WarnInitialFiles)
    /\ PremiumInit({PremiumFileMissing})
    /\ [][WarnNext]_vars

\* Windows filled to their capacity: one guild, one deleting user, one
\* listener at a time, every platform call succeeding
CapKey == <<1, 1, "channel_delete">>

CapNext ==
    \/ \E d \in TickSteps :
          NoDeletionYet /\ TotalJoins > 0 /\ Tick(d, MaxTime)
    \/ /\ Quiescent /\ NoDeletionYet
       /\ raid_calls[1] < MaxCapRaids
       /\ OnMemberJoin(1, JOINS_MAXLEN + 1)
    \/ \E i \in TaskIds : RaidEdit(i, TRUE)
    \/ \E i \in TaskIds : RaidPerm(i, TRUE)
    \/ \E d \in DelTickSteps :
          NoJoinYet /\ TotalDeletes > 0 /\ Tick(d, MaxDelTime)
    \/ /\ Quiescent /\ NoJoinYet
       /\ ban_calls[CapKey] < MaxCapBans
       /\ OnGuildDelete(CapKey[1], CapKey[3], CapKey[2], ACTIONS_MAXLEN + 1)
    \/ \E i \in TaskIds : AuditReturn(i, "entry")
    \/ \E i \in TaskIds : BanDone(i, TRUE)
    \/ \E i \in TaskIds : NotifyDone(i, TRUE)

CapSpec == InitWith({FileJson(<<1>>)}) /\ [][CapNext]_vars

\* Protection switched off in the middle of a burst and on again: guild 1
\* starts enabled, disable is given when the burst is one event short of
\* its threshold, enable only while the guild is disabled
OneShort ==
    \/ TotalJoins = JOIN_THRESHOLD - 1
    \/ TotalDeletes = CHANNEL_DEL_THRESHOLD - 1 /\ Quiescent

ReenableNext ==
    \/ \E d \in TickSteps :
          NoDeletionYet /\ TotalJoins > 0 /\ Tick(d, MaxTime)
    \/ \E g \in Guilds : NoDeletionYet /\ OnMemberJoin(g, MaxJoins)
    \/ \E i \in TaskIds, ok \in BOOLEAN : RaidEdit(i, ok)
    \/ \E i \in TaskIds, ok \in BOOLEAN : RaidPerm(i, ok)
    \/ \E d \in DelTickSteps :
          NoJoinYet /\ TotalDeletes > 0 /\ Tick(d, MaxDelTime)
    \/ \E g \in NukedGuilds, a \in Actions, u \in Users :
          NoJoinYet /\ OnGuildDelete(g, a, u, MaxDeletes)
    \/ \E i \in TaskIds, o \in AuditOutcomes : AuditReturn(i, o)
    \/ \E i \in TaskIds, ok \in BOOLEAN : BanDone(i, ok)
    \/ \E i \in TaskIds, ok \in BOOLEAN : NotifyDone(i, ok)
    \/ \E g \in Toggled : g \notin enabled_guilds /\ SecurityEnable(g)
    \/ \E g \in Toggled : OneShort /\ SecurityDisable(g)

ReenableSpec == InitWith({FileJson(<<1>>)}) /\ [][ReenableNext]_vars

\* The premium commands from every kind of premium.json the program leaves
\* behind: none, one that does not parse, and lists it has saved
PremiumInitialFiles ==
    {PremiumFileMissing, PremiumFileCorrupt,
     PremiumFileJson(DefaultData),
     PremiumFileJson([users |-> <<1, 3>>, guilds |-> <<>>]),
     PremiumFileJson([users |-> <<2>>, guilds |-> <<1>>])}

PremiumNext ==
    \/ \E u \in PremiumUsers : grant_premium_user(u)
    \/ \E u \in PremiumUsers : revoke_premium_user(u)

PremiumSpec ==
    /\ SecurityInit({FileJson(<<1>>)})
    /\ LedgerInit({WarnFileMissing})
    /\ PremiumInit(PremiumInitialFiles)
    /\ [][PremiumNext]_vars

\* Restarts between the owner commands, from every kind of persisted file
RestartNext ==
    \/ \E g \in Guilds : SecurityEnable(g)
    \/ \E g \in Guilds : SecurityDisable(g)
    \/ \E g \in Guilds : OnMemberJoin(g, MaxStoreJoins)
    \/ Restart

RestartSpec == InitWith(InitialFiles) /\ [][RestartNext]_vars

\* Joins and deletions in one behaviour, both guilds enabled, one listener
\* at a time, the lookup returning the entry of the deletion
KeyNext ==
    \/ \E g \in Guilds : Quiescent /\ OnMemberJoin(g, MaxKeyJoins)
    \/ \E i \in TaskIds : RaidEdit(i, TRUE)
    \/ \E i \in TaskIds : RaidPerm(i, TRUE)
    \/ \E g \in NukedGuilds, a \in Actions, u \in Users :
          Quiescent /\ OnGuildDelete(g, a, u, MaxKeyDeletes)
    \/ \E i \in TaskIds : AuditReturn(i, "entry")
    \/ \E i \in TaskIds, ok \in BOOLEAN : BanDone(i, ok)
    \/ \E i \in TaskIds : NotifyDone(i, TRUE)

KeySpec == InitWith({FileJson(<<2, 1>>)}) /\ [][KeyNext]_vars

(***************************************************************************)
(* Properties.                                                             *)
(***************************************************************************)
\* the number of stored timestamps t with t0 - t <= window
InWindow(dq, t0, window) ==
    Cardinality({i \in DOMAIN dq : t0 - dq[i] <= window})

\* the in-window count seen by the event stored at position j
PrefixCount(dq, j, window) ==
    Cardinality({i \in 1..j : dq[j] - dq[i] <= window})

Decided(e) == e.kind \in {"join", "delete"}

\* window, window length and threshold of the key of a handled event
WindowOf(e, js, as) ==
    IF e.kind = "join" THEN Get(js, e.guild)
    ELSE Get(as, <<e.guild, e.user, e.action>>)
LengthOf(e) == IF e.kind = "join" THEN JOIN_WINDOW ELSE DEL_WINDOW
ThresholdOf(e) ==
    IF e.kind = "join" THEN JOIN_THRESHOLD
    ELSE IF e.action = "channel_delete" THEN CHANNEL_DEL_THRESHOLD
    ELSE ROLE_DEL_THRESHOLD

\* the listener of event e is suspended inside its mitigation
MitigationStarted(e) ==
    IF e.kind = "join"
    THEN \E i \in TaskIds :
            /\ tasks[i].guild = e.guild
            /\ tasks[i].pc \in {"raid_edit", "raid_perm", "notify"}
    ELSE \E i \in TaskIds :
            /\ tasks[i].pc = "ban"
            /\ tasks[i].guild = e.guild
            /\ tasks[i].user = e.user
            /\ tasks[i].action = e.action

\* C1: while the in-window count of a key stays at or above its threshold,
\* the mitigation of that key is invoked at most once (the statement of the
\* claim; the code re-triggers on every further event of the burst)
C1_AtMostOncePerBurst ==
    /\ \A g \in Guilds : burst_raids[g] <= 1
    /\ \A k \in Keys : burst_bans[k] <= 1

\* C2: an event that brings the in-window count of its key from below the
\* threshold to the threshold has its mitigation invoked in the same
\* handling: the lockdown of its guild, or the ban of its subject
C2_TriggerAtThreshold ==
    Decided(last) =>
        LET n == InWindow(WindowOf(last, joins, actions), now, LengthOf(last))
        IN n = ThresholdOf(last) =>
              /\ last.calls = 1
              /\ MitigationStarted(last)

C2_Witness ==
    /\ last.kind = "delete"
    /\ last.action = "channel_delete"
    /\ last.count = CHANNEL_DEL_THRESHOLD
    /\ ban_calls[<<last.guild, last.user, last.action>>] = 1
    /\ MitigationStarted(last)

\* C3: an event whose key holds fewer than threshold timestamps within the
\* window, itself included, makes no mitigation call and no owner
\* notification, and leaves no listener suspended
C3_NoTriggerUnderThreshold ==
    [][LET e == last'
       IN (Decided(e) /\ InWindow(WindowOf(e, joins', actions'), now',
                                  LengthOf(e)) < ThresholdOf(e))
          => /\ raid_calls' = raid_calls
             /\ ban_calls' = ban_calls
             /\ notify_calls' = notify_calls
             /\ e.calls = 0
             /\ \A i \in TaskIds :
                   tasks'[i] \in {tasks[i], Idle,
                                  [tasks[i] EXCEPT !.rank = @ - 1]}]_vars

C3_Witness ==
    /\ last.kind = "join"
    /\ last.count = JOIN_THRESHOLD - 1
    /\ Len(joins[last.guild]) = JOIN_THRESHOLD - 1
    /\ raid_calls[last.guild] = 0

\* everything the detector owns or causes: windows, listeners, mitigation
\* and notification calls, channel state, the enabled set and its file
detector == <<joins, actions, tasks, channels, raid_calls, ban_calls,
              notify_calls, burst_raids, burst_bans, enabled_guilds,
              enable_file>>

\* C4: an event (join, channel deletion, role deletion) observed while its
\* guild is not in the enabled set creates and changes no window, starts no
\* listener and no audit lookup, and makes no mitigation or notification
C4_DisabledInert ==
    [][\A g \in Guilds :
          (/\ g \notin enabled_guilds
           /\ \/ OnMemberJoin(g, MaxJoins)
              \/ \E a \in Actions, u \in Users :
                    OnGuildDelete(g, a, u, MaxDeletes))
          => UNCHANGED detector]_vars

C4_Witness ==
    /\ last.kind = "ignored"
    /\ last.guild \notin enabled_guilds
    /\ Len(Get(joins, last.guild)) = JOIN_THRESHOLD - 1
    /\ now = 0
    /\ raid_calls[last.guild] = 0

\* the positions of a window whose event saw the threshold reached
TriggerPositions(dq, window, threshold) ==
    {j \in DOMAIN dq : PrefixCount(dq, j, window) >= threshold}

\* two such positions separated by a silence longer than the window
Rearmed(dq, window, threshold) ==
    \E j1, j2 \in TriggerPositions(dq, window, threshold) :
        /\ j1 < j2
        /\ \E i \in j1..(j2 - 1) : dq[i + 1] - dq[i] > window

\* C5: when a key has triggered, then stayed silent for longer than the
\* window, and a later run of events reaches the threshold again, a second
\* mitigation call has been made for that key
C5_RearmAfterCooldown ==
    /\ \A g \in Guilds :
          Rearmed(Get(joins, g), JOIN_WINDOW, JOIN_THRESHOLD)
          => raid_calls[g] >= 2
    /\ \A k \in Keys :
          Rearmed(Get(actions, k), DEL_WINDOW, DelThreshold(k[3]))
          => ban_calls[k] >= 2

C5_Witness ==
    \E g \in Guilds :
        /\ Rearmed(Get(joins, g), JOIN_WINDOW, JOIN_THRESHOLD)
        /\ Len(joins[g]) = 2 * JOIN_THRESHOLD
        /\ last.kind = "join"
        /\ last.count = JOIN_THRESHOLD
        /\ raid_calls[g] = 2

\* C6: the count a listener decides on is the number of stored timestamps
\* t of its key with now - t <= window, the boundary included, and counts
\* no timestamp older than now - window
C6_WindowCount ==
    Decided(last) =>
        LET dq == WindowOf(last, joins, actions)
            old == {i \in DOMAIN dq : dq[i] < now - LengthOf(last)}
        IN /\ last.count = InWindow(dq, now, LengthOf(last))
           /\ last.count = Len(dq) - Cardinality(old)

\* five joins at one time and one join just after the window has passed
C6_Witness ==
    /\ last.kind = "join"
    /\ Len(joins[last.guild]) = 6
    /\ joins[last.guild][5] = 0
    /\ joins[last.guild][6] > JOIN_WINDOW
    /\ last.count = 1

\* C7: three channel deletions attributed to U within the window cause
\* exactly one ban call, for (G, U); a channel deletion attributed to
\* another subject V, who has fewer than three of their own, bans nobody
C7_PerSubjectAttribution ==
    \A g \in Guilds, u \in Users, v \in Users :
        LET ku == <<g, u, "channel_delete">>
            kv == <<g, v, "channel_delete">>
            dqu == Get(actions, ku)
            dqv == Get(actions, kv)
        IN u # v =>
            /\ (Len(dqu) = CHANNEL_DEL_THRESHOLD
                  /\ dqu[Len(dqu)] - dqu[1] <= DEL_WINDOW)
               => ban_calls[ku] = 1
            /\ (/\ last.kind = "delete"
                /\ last.guild = g
                /\ last.action = "channel_delete"
                /\ last.user = v
                /\ Len(dqv) < CHANNEL_DEL_THRESHOLD)
               => /\ last.calls = 0
                  /\ ban_calls[kv] = 0
                  /\ \A i \in TaskIds :
                        (tasks[i].pc = "ban"
                          /\ tasks[i].action = "channel_delete")
                        => tasks[i].user # v

C7_Witness ==
    \E g \in Guilds, u \in Users, v \in Users :
        LET ku == <<g, u, "channel_delete">>
            kv == <<g, v, "channel_delete">>
        IN /\ u # v
           /\ Len(Get(actions, ku)) = CHANNEL_DEL_THRESHOLD
           /\ Len(Get(actions, kv)) = 1
           /\ actions[kv][1] - actions[ku][1] <= DEL_WINDOW
           /\ actions[kv][1] >= actions[ku][3]
           /\ last.kind = "delete"
           /\ last.user = v
           /\ ban_calls[ku] = 1
           /\ ban_calls[kv] = 0

\* C8: when the audit lookup of a deletion raises, times out or returns no
\* entry, the listener ends with every window unchanged, no key created,
\* and no ban or owner notification made
C8_AttributionFailureDrops ==
    [][\A i \in TaskIds, o \in {"raise", "empty"} :
          (tasks[i].pc = "lookup" /\ AuditReturn(i, o))
          => /\ UNCHANGED <<joins, actions, raid_calls, ban_calls,
                            notify_calls, channels>>
             /\ DOMAIN actions' = DOMAIN actions
             /\ tasks'[i] = Idle]_vars

C8_Witness ==
    /\ last.kind = "dropped"
    /\ Len(Get(actions, <<last.guild, 1, last.action>>))
         = DelThreshold(last.action) - 1
    /\ audit_last[last.guild][last.action] = 1
    /\ \A k \in Keys : ban_calls[k] = 0

\* C9: a missing or unparsable file loads as the empty set, so no guild is
\* enabled; enabling G afterwards leaves the persisted set equal to {G}
C9_CorruptLoadsEmpty ==
    boot_file.kind \in {"missing", "corrupt", "scalar"} =>
        /\ (\A g \in Guilds : last_op[g] = "none") => enabled_guilds = {}
        /\ \A g \in Guilds :
              (/\ last_op[g] = "enable"
               /\ \A h \in Guilds \ {g} : last_op[h] = "none")
              => /\ enabled_guilds = {g}
                 /\ enable_file.kind = "json"
                 /\ Range(enable_file.list) = {g}

C9_Witness ==
    /\ boot_file = FileCorrupt
    /\ last_op = [g \in Guilds |-> IF g = 2 THEN "enable" ELSE "none"]
    /\ enable_file = FileJson(<<2>>)
    /\ last.kind = "ignored"
    /\ last.guild = 1

\* C10: after an enable or disable the persisted set equals the set in
\* memory, and a guild is enabled exactly when its last such command was
\* enable, or there was none and the loaded set held it
C10_PersistedEqualsMemory ==
    /\ (\E g \in Guilds : last_op[g] # "none")
       => /\ enable_file.kind = "json"
          /\ Range(enable_file.list) = enabled_guilds
          /\ LoadEnabled(enable_file) = enabled_guilds
    /\ \A g \in Guilds :
          g \in enabled_guilds
          <=> \/ last_op[g] = "enable"
              \/ last_op[g] = "none" /\ g \in LoadEnabled(boot_file)

C10_Witness ==
    /\ boot_file = FileJson(<<2, 1>>)
    /\ last_op = [g \in Guilds |-> IF g = 1 THEN "disable" ELSE "none"]
    /\ enabled_guilds = {2}
    /\ enable_file = FileJson(<<2>>)

\* C11: enable on an enabled guild and disable on a disabled guild leave
\* the set in memory as it was and persist exactly that set, each guild
\* once, as a single application does; no step is refused
C11_Idempotent ==
    [][\A g \in Guilds :
          /\ (g \in enabled_guilds /\ SecurityEnable(g))
             => /\ enabled_guilds' = enabled_guilds
                /\ enable_file'.kind = "json"
                /\ Range(enable_file'.list) = enabled_guilds
                /\ Len(enable_file'.list) = Cardinality(enabled_guilds)
                /\ LoadEnabled(enable_file') = enabled_guilds
          /\ (g \notin enabled_guilds /\ SecurityDisable(g))
             => /\ enabled_guilds' = enabled_guilds
                /\ enable_file'.kind = "json"
                /\ Range(enable_file'.list) = enabled_guilds
                /\ Len(enable_file'.list) = Cardinality(enabled_guilds)
                /\ LoadEnabled(enable_file') = enabled_guilds]_vars

\* guild 2, enabled by a file that lists it twice, has been enabled again
\* and no other command was handled: the file now lists it once
C11_Witness ==
    /\ boot_file = FileJson(<<2, 2>>)
    /\ last_op = [g \in Guilds |-> IF g = 2 THEN "enable" ELSE "none"]
    /\ TotalJoins = 0
    /\ enabled_guilds = {2}
    /\ enable_file = FileJson(<<2>>)

\* a lockdown listener inside its loop
InLoop(t) == t.pc \in {"raid_edit", "raid_perm"}

\* the lockdown listener t has gone on to t2: the edit of the next text
\* channel, or the owner notification after the last one
MovesOn(t, t2, ncalls, ncalls2) ==
    IF t.idx < Len(TextChannels(t.guild))
    THEN /\ t2.pc = "raid_edit"
         /\ t2.idx = t.idx + 1
         /\ t2.guild = t.guild
         /\ ncalls2 = ncalls
    ELSE /\ t2.pc = "notify"
         /\ t2.guild = t.guild
         /\ ncalls2[t.guild] = ncalls[t.guild] + 1

\* C12: a lockdown whose slowmode edit or permission change fails on a
\* channel goes on to the next text channel, or to the owner notification
\* after the last one; no step of a lockdown skips a channel or ends it
C12_PerChannelIsolation ==
    [][\A i \in TaskIds :
          /\ (RaidEdit(i, FALSE) \/ RaidPerm(i, FALSE))
             => MovesOn(tasks[i], tasks'[i], notify_calls, notify_calls')
          /\ (InLoop(tasks[i]) /\ tasks'[i] # tasks[i])
             => \/ MovesOn(tasks[i], tasks'[i], notify_calls, notify_calls')
                \/ /\ tasks[i].pc = "raid_edit"
                   /\ tasks'[i] = [tasks[i] EXCEPT !.pc = "raid_perm"]]_vars

\* the edit of the first channel failed, the second channel was still
\* visited and the owners are being notified
C12_Witness ==
    /\ raid_calls[1] = 1
    /\ channels[1].slowmode = 0
    /\ channels[2].slowmode = RAID_SLOWMODE
    /\ notify_calls[1] = 1
    /\ \E i \in TaskIds : tasks[i].pc = "notify" /\ tasks[i].guild = 1

\* C13: with no platform call failing, once a lockdown of a guild has left
\* its loop every text channel of the guild has slowmode 30 and send
\* denied for the default role, and the channels of a guild never locked
\* down are untouched; a channel found denied gets no permission write
C13_RaidEffect ==
    /\ [](\A g \in Guilds :
            /\ notify_calls[g] >= 1
               => \A c \in Range(TextChannels(g)) :
                     /\ channels[c].slowmode = RAID_SLOWMODE
                     /\ channels[c].send = "deny"
            /\ raid_calls[g] = 0
               => \A c \in Range(TextChannels(g)) :
                     channels[c].slowmode = 0)
    /\ [][\A i \in TaskIds :
            (RaidEdit(i, TRUE)
              /\ channels[TextChannels(tasks[i].guild)[tasks[i].idx]].send
                   = "deny")
            => /\ tasks'[i].pc # "raid_perm"
               /\ \A c \in ChannelIds : channels'[c].send = channels[c].send
        ]_vars

C13_Witness ==
    /\ raid_calls[1] = 1
    /\ notify_calls[1] = 1
    /\ channels[1] = [slowmode |-> RAID_SLOWMODE, send |-> "deny"]
    /\ channels[2] = [slowmode |-> RAID_SLOWMODE, send |-> "deny"]
    /\ channels[3].slowmode = 0

\* C14: once a ban call for a key has failed, no further ban call is made
\* for that key while its burst lasts (the statement of the claim; the
\* code calls guild.ban again on the next deletion of the burst)
C14_NoRetryAfterBanFailure ==
    [][\A k \in Keys :
          burst_failed[k] => ban_calls'[k] = ban_calls[k]]_vars

\* what a failing owner notification must leave alone
notified == <<joins, actions, channels, raid_calls, ban_calls, notify_calls,
              enabled_guilds, enable_file>>

\* a lockdown that leaves its loop goes on to the owner notification
LockdownNotifies(i) ==
    (InLoop(tasks[i]) /\ ~InLoop(tasks'[i]))
    => /\ tasks'[i] = [Idle EXCEPT !.pc = "notify", !.guild = tasks[i].guild]
       /\ notify_calls'[tasks[i].guild] = notify_calls[tasks[i].guild] + 1

\* a failing notification ends the listener and changes nothing else
NotifyFailureSwallowed(i) ==
    NotifyDone(i, FALSE)
    => /\ UNCHANGED notified
       /\ tasks' = [tasks EXCEPT ![i] = Idle]

\* C15 as stated: every lockdown and every ban call, failed or not, is
\* followed by an attempt to notify the owners
C15_NotifyAfterEveryMitigation ==
    [][\A i \in TaskIds :
          /\ LockdownNotifies(i)
          /\ (tasks[i].pc = "ban" /\ tasks'[i].pc # "ban")
             => /\ tasks'[i].pc = "notify"
                /\ notify_calls'[tasks[i].guild]
                     = notify_calls[tasks[i].guild] + 1
          /\ NotifyFailureSwallowed(i)]_vars

\* C15 as amended: every lockdown, whether or not its platform calls
\* succeeded, and every ban call that succeeded is followed by an attempt
\* to notify the owners; a failing notification changes nothing else
C15_NotifyAfterMitigation ==
    [][\A i \in TaskIds :
          /\ LockdownNotifies(i)
          /\ BanDone(i, TRUE)
             => /\ tasks'[i] = [Idle EXCEPT !.pc = "notify",
                                           !.guild = tasks[i].guild]
                /\ notify_calls'[tasks[i].guild]
                     = notify_calls[tasks[i].guild] + 1
          /\ NotifyFailureSwallowed(i)]_vars

\* the owners of guild 1 are being told of a ban, and of nothing else
C15_Witness ==
    /\ raid_calls[1] = 0
    /\ notify_calls[1] = 1
    /\ \E k \in Keys : k[1] = 1 /\ ban_calls[k] = 1
    /\ \E i \in TaskIds : tasks[i].pc = "notify" /\ tasks[i].guild = 1

\* C16: a warn that completes appends its record at the end of the
\* subject's list, keeps every earlier record of every subject in place,
\* and leaves in warnings.json the map that is in memory; no step removes
\* or reorders a record
C16_AppendOnlyLedger ==
    [][/\ \A m \in Users, r \in Reasons, u \in Mods :
             (Warn(m, r, u, MaxWarns) /\ ~WarnRaises(warnings, SubjectKey(m)))
             => LET key == SubjectKey(m)
                    old == Entries(warnings, key)
                    new == warnings'.map[key].items
                IN /\ warnings'.kind = "map"
                   /\ DOMAIN warnings'.map = DOMAIN warnings.map \cup {key}
                   /\ warnings'.map[key].kind = "list"
                   /\ Len(new) = Len(old) + 1
                   /\ new[Len(new)] = [reason |-> Lower(r), mod |-> u,
                                       time |-> now]
                   /\ \A k \in DOMAIN warnings.map \ {key} :
                         warnings'.map[k] = warnings.map[k]
                   /\ warn_file'.kind = "json"
                   /\ warn_file'.doc = warnings'
                   /\ LoadWarnings(warn_file') = warnings'
       /\ warnings.kind = "map"
          => /\ warnings'.kind = "map"
             /\ \A k \in DOMAIN warnings.map :
                   /\ k \in DOMAIN warnings'.map
                   /\ warnings.map[k].kind = "list"
                      => /\ warnings'.map[k].kind = "list"
                         /\ Len(warnings'.map[k].items)
                              >= Len(warnings.map[k].items)
                         /\ SubSeq(warnings'.map[k].items, 1,
                                   Len(warnings.map[k].items))
                              = warnings.map[k].items]_vars

\* member 1, with one warning loaded from the file, is warned once more
\* after the clock has moved, and member 2 twice
C16_Witness ==
    /\ warn_boot = WarnFileJson(DocMap([k \in {SubjectKey(1)} |-> WarnedOnce]))
    /\ last.kind = "warn"
    /\ warnings.kind = "map"
    /\ DOMAIN warnings.map = {SubjectKey(1), SubjectKey(2)}
    /\ Len(warnings.map[SubjectKey(1)].items) = 2
    /\ warnings.map[SubjectKey(1)].items[1] = WarnedOnce.items[1]
    /\ warnings.map[SubjectKey(1)].items[2].time > 0
    /\ Len(warnings.map[SubjectKey(2)].items) = 2
    /\ warn_file = WarnFileJson(warnings)

\* a file that is unparsable, or parsable but no map of subjects to lists
LedgerCorrupt(f) ==
    \/ f.kind = "corrupt"
    \/ f.kind = "json" /\ ~WellFormed(f.doc)

\* C17: such a file loads as the empty ledger, so that the first warn
\* after it completes and leaves a ledger holding just its record, in
\* memory and in the file (the statement of the claim; the code keeps a
\* parsable document of any shape, and warn then raises AttributeError)
C17_CorruptLedgerLoadsEmpty ==
    (/\ LedgerCorrupt(warn_boot)
     /\ warn_calls = 1
     /\ last.kind \in {"warn", "warn_raised"})
    => /\ last.kind = "warn"
       /\ warnings.kind = "map"
       /\ DOMAIN warnings.map = {SubjectKey(last.user)}
       /\ Len(Entries(warnings, SubjectKey(last.user))) = 1
       /\ warn_file = WarnFileJson(warnings)

\* C18: at most one listener is in progress at any time (the statement of
\* the claim; a listener suspended at an await does not keep the next
\* event from being handled)
C18_RunToCompletion == Cardinality(TaskIds \ FreeSlots) <= 1

\* C19: a deletion whose audit lookup returns, and which is then stored
\* and decided, is the oldest pending deletion of its guild, action and
\* deleting user (the statement of the claim; lookups return in any order)
C19_ArrivalOrderPerKey ==
    [][\A i \in TaskIds :
          (tasks[i].pc = "lookup" /\ AuditReturn(i, "entry"))
          => \A j \in Pending \ {i} :
                (/\ tasks[j].guild = tasks[i].guild
                 /\ tasks[j].action = tasks[i].action
                 /\ tasks[j].actor = tasks[i].actor)
                => tasks[j].rank > tasks[i].rank]_vars

\* the window w after timestamp x was appended to the full window v
Evicted(v, w, x) ==
    /\ Len(w) = Len(v)
    /\ \A j \in 1..(Len(v) - 1) : w[j] = v[j + 1]
    /\ w[Len(w)] = x

\* C20: no join window ever holds more than 50 timestamps and no deletion
\* window more than 10; an append to a full window drops its oldest
\* timestamp and keeps the others in order
C20_CapacityBound ==
    /\ [](/\ \A g \in DOMAIN joins : Len(joins[g]) <= JOINS_MAXLEN
          /\ \A k \in DOMAIN actions : Len(actions[k]) <= ACTIONS_MAXLEN)
    /\ [][/\ \A g \in Guilds :
               (/\ g \in enabled_guilds
                /\ Len(Get(joins, g)) = JOINS_MAXLEN
                /\ OnMemberJoin(g, JOINS_MAXLEN + 1))
               => Evicted(joins[g], joins'[g], now)
          /\ \A i \in TaskIds :
               LET k == <<tasks[i].guild,
                          audit_last[tasks[i].guild][tasks[i].action],
                          tasks[i].action>>
               IN (/\ tasks[i].pc = "lookup"
                   /\ Len(Get(actions, k)) = ACTIONS_MAXLEN
                   /\ AuditReturn(i, "entry"))
                  => Evicted(actions[k], actions'[k], now)]_vars

\* one join at time 0 and fifty at time 10: the first has been dropped
\* before the last was counted
C20_Witness ==
    /\ last.kind = "join"
    /\ Len(joins[last.guild]) = JOINS_MAXLEN
    /\ joins[last.guild][1] = JOIN_WINDOW
    /\ last.count = JOINS_MAXLEN
    /\ raid_calls[last.guild] = JOINS_MAXLEN + 2 - JOIN_THRESHOLD

\* the timestamps of a window never decrease from oldest to newest
Sorted(dq) == \A i, j \in 1..Len(dq) : i < j => dq[i] <= dq[j]

\* C21: in every reachable state every join window and every deletion
\* window is non-decreasing from oldest to newest, whatever the order in
\* which suspended audit lookups resume
C21_WindowsOrdered ==
    /\ \A g \in DOMAIN joins : Sorted(joins[g])
    /\ \A k \in DOMAIN actions : Sorted(actions[k])

\* a deletion of second 0 and one handled a window length later are stored
\* in that order while another lookup is still suspended
C21_Witness ==
    /\ last.kind = "delete"
    /\ Pending # {}
    /\ Get(actions, <<last.guild, last.user, last.action>>)
         = <<0, DEL_WINDOW>>
    /\ now = DEL_WINDOW

\* C22: a step that changes the enabled set in memory or the persisted
\* file is an enable or a disable command; no join, deletion, audit result,
\* ban, lockdown step or notification changes either
C22_OnlyCommandsChangeEnablement ==
    [][(enabled_guilds' # enabled_guilds \/ enable_file' # enable_file)
          => \E g \in Guilds : SecurityEnable(g) \/ SecurityDisable(g)]_vars

\* a ban of the burst has failed and a lockdown or a ban has been started,
\* with no command given: the store is what was loaded
C22_Witness ==
    /\ \E k \in Keys : burst_failed[k] /\ ban_calls[k] > 0
    /\ \A g \in Guilds : last_op[g] = "none"
    /\ enabled_guilds = {1}
    /\ enable_file = boot_file

\* a failing step of listener i: the lookup raises, returns nothing or
\* returns an entry without a user, or a platform call is refused
FailsAt(i) ==
    \/ tasks[i].pc = "lookup" /\ \E o \in AuditOutcomes \ {"entry"} :
                                     AuditReturn(i, o)
    \/ BanDone(i, FALSE)
    \/ RaidEdit(i, FALSE)
    \/ RaidPerm(i, FALSE)
    \/ NotifyDone(i, FALSE)

\* C23: a failing step leaves both windows, the counters of mitigations
\* and the enablement as they were and does not keep its listener
\* suspended at the failed call; every event handled afterwards that finds
\* its key at the threshold starts the mitigation
C23_FailureIsolation ==
    /\ [](Decided(last) /\ last.count >= ThresholdOf(last)
            => last.calls = 1 /\ MitigationStarted(last))
    /\ [][\A i \in TaskIds :
             FailsAt(i) => /\ UNCHANGED <<joins, actions, raid_calls,
                                          ban_calls, store>>
                           /\ tasks'[i] # tasks[i]
                           /\ tasks'[i].pc # tasks[i].pc
                              \/ tasks'[i].idx # tasks[i].idx]_vars

\* the ban of a burst failed, and the next deletion of the same subject is
\* counted and starts a ban again
C23_Witness ==
    /\ last.kind = "delete"
    /\ last.calls = 1
    /\ burst_failed[<<last.guild, last.user, last.action>>]
    /\ ban_calls[<<last.guild, last.user, last.action>>] = 2
    /\ MitigationStarted(last)

\* C24: a ban or a lockdown is started only for a guild that is in the
\* enabled set at that moment (the statement of the claim; the code tests
\* the set before the audit lookup and not after it)
C24_NoMitigationWhileDisabled ==
    [][/\ \A k \in Keys :
             ban_calls'[k] > ban_calls[k] => k[1] \in enabled_guilds
       /\ \A g \in Guilds :
             raid_calls'[g] > raid_calls[g] => g \in enabled_guilds]_vars

\* C25: an audit result is recorded under the user who performed the
\* deletion the listener is handling (the statement of the claim; the code
\* records it under the user of the newest audit entry)
C25_NoFalseAttribution ==
    [][\A i \in TaskIds :
          (tasks[i].pc = "lookup" /\ AuditReturn(i, "entry"))
          => audit_last[tasks[i].guild][tasks[i].action]
               = tasks[i].actor]_vars

\* C29: enable and disable change no window; as long as nothing has been
\* evicted a window holds every timestamp handled for its key, so what was
\* recorded before a disable is counted by the first event after the
\* enable that follows
C29_TogglesKeepWindows ==
    /\ [](/\ \A g \in DOMAIN all_joins :
               Len(all_joins[g]) <= JOINS_MAXLEN
               => Get(joins, g) = all_joins[g]
          /\ \A k \in DOMAIN all_actions :
               Len(all_actions[k]) <= ACTIONS_MAXLEN
               => Get(actions, k) = all_actions[k]
          /\ Decided(last)
             => last.count = InWindow(WindowOf(last, all_joins, all_actions),
                                      now, LengthOf(last)))
    /\ [][\A g \in Guilds :
             (SecurityEnable(g) \/ SecurityDisable(g))
             => UNCHANGED <<joins, actions>>]_vars

\* five joins at second 0, protection switched off and on again, and the
\* join at second 10 counts six and starts the lockdown
C29_Witness ==
    /\ last.kind = "join"
    /\ last.guild = 1
    /\ last_op[1] = "enable"
    /\ joins[1] = <<0, 0, 0, 0, 0, JOIN_WINDOW>>
    /\ last.count = JOIN_THRESHOLD
    /\ last.calls = 1
    /\ raid_calls[1] = 1

\* the number of places of a list that hold x
Occurrences(seq, x) == Cardinality({j \in 1..Len(seq) : seq[j] = x})

\* C30: the cached user list holds no id twice; a user on whom a grant or
\* a revoke has been run is premium exactly when the last of them was a
\* grant; a step that changes the cache leaves the cache in premium.json
C30_PremiumInSync ==
    /\ [](/\ \A u \in PremiumUsers :
               Occurrences(premium_cache.users, u) <= 1
          /\ \A u \in PremiumUsers :
               premium_ops[u] # "none"
               => (is_premium_user(u) <=> premium_ops[u] = "grant"))
    /\ [][premium_cache' # premium_cache
             => premium_file' = PremiumFileJson(premium_cache')]_vars

\* from a file naming users 1 and 3: user 1 revoked, user 2 granted, user 3
\* granted again without being added twice
C30_Witness ==
    /\ premium_ops = [u \in PremiumUsers |->
                         IF u = 1 THEN "revoke"
                         ELSE IF u \in {2, 3} THEN "grant" ELSE "none"]
    /\ premium_cache.users = <<3, 2>>
    /\ premium_file = PremiumFileJson(premium_cache)

\* C28: a restart leaves the enabled set as it was just before, for every
\* guild, whatever enable and disable commands came before it; what the
\* restarted process holds is what the file of that moment loads to
C28_RestartKeepsEnablement ==
    [][Restart => /\ enabled_guilds' = enabled_guilds
                  /\ enabled_guilds' = LoadEnabled(enable_file')
                  /\ \A g \in Guilds : NotEnabled(g)' <=> NotEnabled(g)]_vars

\* both guilds were enabled by command, the process was restarted, and
\* both are still enabled
C28_Witness ==
    /\ last.kind = "restart"
    /\ enabled_guilds = {1, 2}
    /\ boot_file = FileJson(<<1, 2>>)
    /\ \A g \in Guilds : last_op[g] = "none"

\* C26: a join changes the join window of its guild and no other window; an
\* audit result changes the deletion window of its guild, user and kind
\* and no other window; no other step changes a window.  So a ban needs
\* three deletions of one kind: two channel deletions and two role
\* deletions of one user start none
C26_KeyIndependence ==
    /\ [](\A g \in Guilds, u \in Users :
             (/\ Len(Get(actions, <<g, u, "channel_delete">>))
                   < CHANNEL_DEL_THRESHOLD
              /\ Len(Get(actions, <<g, u, "role_delete">>))
                   < ROLE_DEL_THRESHOLD)
             => /\ ban_calls[<<g, u, "channel_delete">>] = 0
                /\ ban_calls[<<g, u, "role_delete">>] = 0)
    /\ [](\A g \in Guilds :
             Len(Get(joins, g)) < JOIN_THRESHOLD => raid_calls[g] = 0)
    /\ [][/\ \A g \in Guilds :
               OnMemberJoin(g, MaxKeyJoins)
               => /\ actions' = actions
                  /\ \A h \in Guilds \ {g} : Get(joins', h) = Get(joins, h)
          /\ \A i \in TaskIds :
               (tasks[i].pc = "lookup" /\ AuditReturn(i, "entry"))
               => /\ joins' = joins
                  /\ \A k \in Keys \ {<<tasks[i].guild,
                                        audit_last[tasks[i].guild]
                                                  [tasks[i].action],
                                        tasks[i].action>>} :
                        Get(actions', k) = Get(actions, k)
          /\ joins' # joins => \E g \in Guilds : OnMemberJoin(g, MaxKeyJoins)
          /\ actions' # actions
             => \E i \in TaskIds : AuditReturn(i, "entry")]_vars

\* user 1 has deleted two channels and two roles of guild 1, guild 1 has
\* seen five joins and guild 2 two: no ban and no lockdown
C26_Witness ==
    /\ Len(Get(actions, <<1, 1, "channel_delete">>)) = 2
    /\ Len(Get(actions, <<1, 1, "role_delete">>)) = 2
    /\ Len(Get(joins, 1)) = JOIN_THRESHOLD - 1
    /\ Len(Get(joins, 2)) = 2
    /\ \A k \in Keys : ban_calls[k] = 0
    /\ \A g \in Guilds : raid_calls[g] = 0
    /\ last.kind = "delete"
    /\ last.count = 2

\* C27: at every moment and for every key, the in-window count of the
\* stored window is at or above the threshold exactly when the in-window
\* count of all timestamps handled for the key is; the count on which an
\* event was decided agrees in the same way
C27_EvictionKeepsDecision ==
    /\ \A g \in Guilds :
          RecentCount(Get(joins, g), now, JOIN_WINDOW) >= JOIN_THRESHOLD
          <=> InWindow(Get(all_joins, g), now, JOIN_WINDOW) >= JOIN_THRESHOLD
    /\ \A k \in Keys :
          RecentCount(Get(actions, k), now, DEL_WINDOW) >= DelThreshold(k[3])
          <=> InWindow(Get(all_actions, k), now, DEL_WINDOW)
                >= DelThreshold(k[3])
    /\ Decided(last)
       => /\ last.calls = 1
             <=> InWindow(WindowOf(last, all_joins, all_actions), now,
                          LengthOf(last)) >= ThresholdOf(last)
          /\ last.count = InWindow(WindowOf(last, joins, actions), now,
                                   LengthOf(last))

\* the eleventh deletion of a user within the window: the first has been
\* dropped, ten are counted, and the ban is started as it would be on
\* eleven
C27_Witness ==
    /\ last.kind = "delete"
    /\ Len(Get(all_actions, <<last.guild, last.user, last.action>>))
         = ACTIONS_MAXLEN + 1
    /\ InWindow(Get(all_actions, <<last.guild, last.user, last.action>>),
                now, DEL_WINDOW) = ACTIONS_MAXLEN + 1
    /\ last.count = ACTIONS_MAXLEN
    /\ last.calls = 1

====
